---- MODULE Spec2Model ----
(***************************************************************************)
(* State-machine model of src/iksm.py (s3s token generation):              *)
(* the module globals, the two version resolvers, call_f_api, the          *)
(* get_gtoken credential exchange and get_bullet.  One process calls the   *)
(* module's functions one after another; the network is the environment   *)
(* and answers every request with one of the outcomes the code tells       *)
(* apart.                                                                  *)
(***************************************************************************)
EXTENDS Integers, Sequences, FiniteSets, TLC

\* ---------------------------------------------------------------- bounds
\* number of top-level calls the process makes before it stops
MaxCalls == 3
\* the number of inputs the operator types during one call
MaxPrompts == 2

\* ------------------------------------------------------ program constants
UNKNOWN == "unknown"
NSOAPP_VER_FALLBACK == "2.10.1"
WEB_VIEW_VER_FALLBACK == "10.0.0-88706e32"

\* markers of the model: a key missing from a JSON object, an unbound local
Absent == "<absent>"
Unbound == "<unbound>"

\* ------------------------------------------------- environment's answers
\* versions the config endpoint or the app store page can report
NsoVersions == {"2.10.1", "2.11.0"}
\* GET <f_gen_url dir>/config: exception, body not JSON, JSON without
\* nso_version, or JSON with nso_version
ConfigOutcomes == {"connfail", "nonjson", "nofield"} \cup NsoVersions
\* GET apps.apple.com page: exception, no whats-new element, or a version
StoreOutcomes == {"connfail", "noelement"} \cup NsoVersions

\* GET SPLATNET3_URL
HomeOutcomes == {"connfail", "non200", "noscript", "ok"}
\* GET main.js: exception, status # 200, pattern not found, or a match
\* (version, revision); the revision is split into its first 8 characters
\* and the remaining 32
ScriptFailures == {"connfail", "non200", "nomatch"}
ScriptOutcomes ==
  { [kind |-> k, version |-> "", rev8 |-> "", revTail |-> ""] : k \in ScriptFailures }
  \cup
  { [kind |-> "match", version |-> "10.0.0", rev8 |-> "88706e32", revTail |-> "a0"],
    [kind |-> "match", version |-> "10.1.0", rev8 |-> "1f2e3d4c", revTail |-> "b1"] }

\* values passed by the caller of log_in / get_gtoken
S3sVersions == {"0.6.7"}
FGenUrls == {"https://api.imink.app/f"}
SessionToken == "session-token"

\* POST connect/1.0.0/api/token: exception, body not JSON, or a JSON object
\* with or without access_token and id_token
IdResponses ==
  { [kind |-> k, access_token |-> Absent, id_token |-> Absent] : k \in {"connfail", "nonjson"} }
  \cup
  { [kind |-> "json", access_token |-> a, id_token |-> i] :
      a \in {Absent, "na-access"}, i \in {Absent, "na-id"} }

\* GET 2.0.0/users/me: exception, body not JSON, or a JSON object with all
\* of nickname, language, country, id, birthday or with one of them missing
UserInfoFields == {"nickname", "language", "country", "id", "birthday"}
UserInfoFull ==
  [kind |-> "json", nickname |-> "nick", language |-> "en-US", country |-> "US",
   id |-> "na-user", birthday |-> "2000-01-01"]
UserInfoResponses ==
  { [UserInfoFull EXCEPT !.kind = k] : k \in {"connfail", "nonjson"} }
  \cup {UserInfoFull}
  \cup { [UserInfoFull EXCEPT ![m] = Absent] : m \in UserInfoFields }

\* POST f_gen_url: exception, body not JSON, empty body, JSON without one of
\* f / request_id / timestamp, or JSON with the three
AttestOutcomes == {"connfail", "nonjson", "empty", "nofield", "ok"}

\* POST v3/Account/Login: exception, body not JSON, or JSON with or without
\* result.webApiServerCredential.accessToken and result.user.id
CoralTokens == {"coral-1", "coral-2"}
CoralUserIds == {7001}
NoId == -1
CoralResponses ==
  { [kind |-> k, accessToken |-> Absent, userId |-> NoId] : k \in {"connfail", "nonjson"} }
  \cup
  { [kind |-> "json", accessToken |-> a, userId |-> u] :
      a \in {Absent} \cup CoralTokens, u \in {NoId} \cup CoralUserIds }

\* POST v2/Game/GetWebServiceToken: exception, body not JSON, or JSON with or
\* without result.accessToken
WebServiceTokens == {"gtoken-1", "gtoken-2"}
WsResponses ==
  { [kind |-> k, accessToken |-> Absent] : k \in {"connfail", "nonjson"} }
  \cup
  { [kind |-> "json", accessToken |-> a] : a \in {Absent} \cup WebServiceTokens }

\* POST api/bullet_tokens: exception, or a status code with a body that is
\* not JSON, JSON but not an object, an object without bulletToken, or an
\* object with bulletToken
BulletStatuses == {200, 204, 401, 403, 500}
BulletTokens == {"bullet-1"}
BulletResponses ==
  { [kind |-> "connfail", status |-> 0, body |-> "none", bulletToken |-> Absent] }
  \cup
  { [kind |-> "response", status |-> st, body |-> b, bulletToken |-> Absent] :
      st \in BulletStatuses, b \in {"nonjson", "nonobject", "nofield"} }
  \cup
  { [kind |-> "response", status |-> st, body |-> "object", bulletToken |-> t] :
      st \in BulletStatuses, t \in BulletTokens }

VARIABLES
  \* module globals
  USE_OLD_NSOAPP_VER, S3S_VERSION, F_GEN_URL, NSOAPP_VERSION, WEB_VIEW_VERSION,
  \* position of the process, top-level calls made, outcome of the last call
  pc, calls, last,
  \* first and last value returned by each version resolver
  nsoFirst, nsoLast, wvFirst, wvLast,
  \* locals of get_gtoken; f_uuid_timestamp stands for the locals f, uuid
  \* and timestamp, which are only ever assigned together
  id_response, user_info, f_uuid_timestamp, body, access_token, coral_user_id,
  \* requests sent and attestation calls made by the current get_gtoken run
  requests, attests,
  \* get_bullet: the gtoken cookie sent and the response r received
  bullet_r,
  \* locals of log_in, the input read last, the inputs read by the current
  \* call and the api/session_token requests it sent
  auth_code_verifier, auth_code_challenge, use_account_url, prompts, session_reqs,
  \* locals of enter_tokens and the bulletToken as it was typed
  new_gtoken, new_bullettoken, typed,
  \* concurrent callers of get_nsoapp_version and the values they wrote to
  \* NSOAPP_VERSION
  th, writes

globals == <<USE_OLD_NSOAPP_VER, S3S_VERSION, F_GEN_URL, NSOAPP_VERSION, WEB_VIEW_VERSION>>
ctl == <<pc, calls, last>>
hist == <<nsoFirst, nsoLast, wvFirst, wvLast>>
locals == <<id_response, user_info, f_uuid_timestamp, body, access_token, coral_user_id>>
logs == <<requests, attests>>
login == <<auth_code_verifier, auth_code_challenge, use_account_url, prompts, session_reqs>>
manual == <<new_gtoken, new_bullettoken, typed>>
conc == <<th, writes>>
vars == <<globals, ctl, hist, locals, logs, bullet_r, login, manual, conc>>

\* ------------------------------------------------------ version resolvers

\* a get_nsoapp_version that gives up when both lookups fail
get_nsoapp_version_NoFallback(useOld, cache, s3s, fgen, cfg, store) ==
  IF useOld THEN
    [out |-> "return", value |-> NSOAPP_VER_FALLBACK, cache |-> cache]
  ELSE IF cache # UNKNOWN THEN
    [out |-> "return", value |-> cache, cache |-> cache]
  ELSE IF s3s = UNKNOWN \/ fgen = UNKNOWN THEN
    [out |-> "exit", value |-> "1", cache |-> cache]
  ELSE IF cfg \in NsoVersions THEN
    [out |-> "return", value |-> cfg, cache |-> cfg]
  ELSE IF store \in NsoVersions THEN
    [out |-> "return", value |-> store, cache |-> store]
  ELSE
    [out |-> "exit", value |-> "1", cache |-> cache]

\* get_nsoapp_version(): outcome, returned value and new value of the cache,
\* given the globals and the answers of the two lookups
get_nsoapp_version(useOld, cache, s3s, fgen, cfg, store) ==
  IF useOld THEN
    [out |-> "return", value |-> NSOAPP_VER_FALLBACK, cache |-> cache]
  ELSE IF cache # UNKNOWN THEN
    [out |-> "return", value |-> cache, cache |-> cache]
  ELSE IF s3s = UNKNOWN \/ fgen = UNKNOWN THEN
    [out |-> "exit", value |-> "1", cache |-> cache]
  ELSE IF cfg \in NsoVersions THEN
    [out |-> "return", value |-> cfg, cache |-> cfg]
  ELSE IF store \in NsoVersions THEN
    [out |-> "return", value |-> store, cache |-> store]
  ELSE
    [out |-> "return", value |-> NSOAPP_VER_FALLBACK, cache |-> cache]

\* the answers get_nsoapp_version() can get: it sends no request when
\* USE_OLD_NSOAPP_VER is set, the cache is set or a global is missing, and
\* none to the app store when the config answer held a version
NoLookup == "none"
NsoLookups(useOld, cache, s3s, fgen) ==
  IF useOld \/ cache # UNKNOWN \/ s3s = UNKNOWN \/ fgen = UNKNOWN
  THEN {<<NoLookup, NoLookup>>}
  ELSE (NsoVersions \X {NoLookup}) \cup ((ConfigOutcomes \ NsoVersions) \X StoreOutcomes)

\* f"{version}-{revision[:8]}"
ver_string(m) == m.version \o "-" \o m.rev8

\* a get_web_view_ver() that does not look at the cache first
get_web_view_ver_Uncached(cache, home, script) ==
  IF home = "connfail" THEN
    [out |-> "exit", value |-> "1", cache |-> cache]
  ELSE IF home # "ok" THEN
    [out |-> "return", value |-> WEB_VIEW_VER_FALLBACK, cache |-> cache]
  ELSE IF script.kind = "connfail" THEN
    [out |-> "raise", value |-> "ConnectionError", cache |-> cache]
  ELSE IF script.kind = "non200" \/ script.kind = "nomatch" THEN
    [out |-> "return", value |-> WEB_VIEW_VER_FALLBACK, cache |-> cache]
  ELSE
    [out |-> "return", value |-> ver_string(script), cache |-> ver_string(script)]

\* get_web_view_ver(): outcome, returned value and new value of the cache
get_web_view_ver(cache, home, script) ==
  IF cache # UNKNOWN THEN
    [out |-> "return", value |-> cache, cache |-> cache]
  ELSE IF home = "connfail" THEN
    [out |-> "exit", value |-> "1", cache |-> cache]
  ELSE IF home = "non200" \/ home = "noscript" THEN
    [out |-> "return", value |-> WEB_VIEW_VER_FALLBACK, cache |-> cache]
  ELSE IF script.kind = "connfail" THEN
    [out |-> "raise", value |-> "ConnectionError", cache |-> cache]
  ELSE IF script.kind = "non200" \/ script.kind = "nomatch" THEN
    [out |-> "return", value |-> WEB_VIEW_VER_FALLBACK, cache |-> cache]
  ELSE
    [out |-> "return", value |-> ver_string(script), cache |-> ver_string(script)]

\* the answers get_web_view_ver() can get: it sends no request when the
\* cache is set, and none for main.js unless the home page answered well
NoScript == [kind |-> "none", version |-> "", rev8 |-> "", revTail |-> ""]
WvLookups(cache) ==
  IF cache # UNKNOWN THEN {<<NoLookup, NoScript>>}
  ELSE ((HomeOutcomes \ {"ok"}) \X {NoScript}) \cup ({"ok"} \X ScriptOutcomes)

\* where the process is after a call ended with the given outcome
AfterCall(out) ==
  CASE out = "return" -> "idle"
    [] out = "exit"   -> "exit"
    [] out = "raise"  -> "raised"

\* outcome of a call as recorded in last
Returned(fn, vals) == [fn |-> fn, out |-> "return", value |-> vals, code |-> 0, seen |-> <<>>]
\* sys.exit(1)
Exited(fn) == [fn |-> fn, out |-> "exit", value |-> <<>>, code |-> 1, seen |-> <<>>]
\* an exception that no handler of the module catches
Raised(fn, exc) == [fn |-> fn, out |-> "raise", value |-> <<exc>>, code |-> 0, seen |-> <<>>]
Running(fn) == [fn |-> fn, out |-> "running", value |-> <<>>, code |-> 0, seen |-> <<>>]
\* the answers a version resolver got from the requests it made
Seen(l, answers) == [l EXCEPT !.seen = answers]
NsoSeen(net) ==
  IF net[1] = NoLookup THEN <<>>
  ELSE IF net[1] \in NsoVersions THEN <<net[1]>> ELSE <<net[1], net[2]>>
WvSeen(web) ==
  IF web[1] = NoLookup THEN <<>>
  ELSE IF web[1] # "ok" THEN <<web[1]>> ELSE <<web[1], web[2].kind>>
Outcome(fn, r) ==
  CASE r.out = "return" -> Returned(fn, <<r.value>>)
    [] r.out = "exit"   -> Exited(fn)
    [] r.out = "raise"  -> Raised(fn, r.value)

\* first and last value returned by a resolver so far
NoteFirst(first, r) == IF r.out = "return" /\ first = Absent THEN r.value ELSE first
NoteLast(lst, r) == IF r.out = "return" THEN r.value ELSE lst

\* ------------------------------------------------------------- call_f_api

\* the locals f, uuid, timestamp before their first assignment
NoTriple == [f |-> 0, uuid |-> 0, timestamp |-> 0]

\* the JSON body the f generation API answers its n-th request with: f is
\* derived from the token, a request id (uuid v4) and the time of the request,
\* so no two answers are alike
AttestResp(n) == [f |-> n, request_id |-> n + 100, timestamp |-> n + 200]

\* call_f_api, lines 497-505: what the handler prints before sys.exit(1).
\* "body" is the API's answer, "status" its HTTP status, "connect" the
\* could-not-connect message.  json.loads of a body that is not JSON raises
\* inside the handler's own try, and api_response is unbound when the
\* failure came before the request was answered.
f_api_message(nso, api) ==
  IF nso.out # "return" THEN "connect"
  ELSE CASE api = "ok"       -> "none"
         [] api = "connfail" -> "connect"
         [] api = "empty"    -> "status"
         [] api = "nofield"  -> "body"
         [] api = "nonjson"  -> "connect"

\* a call_f_api that carries on without a signature when the API's answer
\* cannot be used
call_f_api_Silent(token, step, user_id, coral_uid, nso, api, n) ==
  [out |-> IF nso.out # "return" THEN "exit" ELSE "return",
   sent |-> nso.out = "return",
   api_body |-> [token |-> token, hash_method |-> step, na_id |-> user_id,
                 coral_user_id |-> IF step = 2 /\ coral_uid # Absent
                                   THEN coral_uid ELSE Absent],
   api |-> api, msg |-> "none",
   ret |-> IF nso.out = "return" /\ api = "ok"
           THEN [f |-> AttestResp(n).f, uuid |-> AttestResp(n).request_id,
                 timestamp |-> AttestResp(n).timestamp]
           ELSE NoTriple]

\* call_f_api(access_token, step, f_gen_url, user_id, coral_user_id): nso is
\* the outcome of its get_nsoapp_version() call, api the answer of the f
\* generation API, n the number of the request to that API.  sent tells
\* whether the request was made, api_body is the body posted.
call_f_api(token, step, user_id, coral_uid, nso, api, n) ==
  LET api_body == [token |-> token, hash_method |-> step, na_id |-> user_id,
                   coral_user_id |-> IF step = 2 /\ coral_uid # Absent
                                     THEN coral_uid ELSE Absent]
      resp == AttestResp(n)
  IN IF nso.out # "return" THEN
       [out |-> "exit", sent |-> FALSE, api_body |-> api_body, api |-> api,
        msg |-> f_api_message(nso, api), ret |-> NoTriple]
     ELSE IF api = "ok" THEN
       [out |-> "return", sent |-> TRUE, api_body |-> api_body, api |-> api,
        msg |-> f_api_message(nso, api),
        ret |-> [f |-> resp.f, uuid |-> resp.request_id, timestamp |-> resp.timestamp]]
     ELSE
       [out |-> "exit", sent |-> TRUE, api_body |-> api_body, api |-> api,
        msg |-> f_api_message(nso, api), ret |-> NoTriple]

\* the attestation log after a call_f_api call
NoteAttest(log, c, after) ==
  IF c.sent
  THEN Append(log, [token |-> c.api_body.token, step |-> c.api_body.hash_method,
                    coral_user_id |-> c.api_body.coral_user_id,
                    api |-> c.api, n |-> Len(log) + 1, out |-> c.out, ret |-> c.ret,
                    after |-> after, msg |-> c.msg])
  ELSE log

\* ------------------------------------------------------------- get_bullet

NoBulletResponse == [gtoken |-> Absent, kind |-> "none", status |-> 0, body |-> "none",
                     bulletToken |-> Absent, chained |-> FALSE]

\* a get_bullet that treats a missing bulletToken like an unparsable body
get_bullet_LenientKey(wv, r) ==
  IF wv.out # "return" THEN [out |-> wv.out, value |-> wv.value]
  ELSE IF r.kind = "connfail" THEN [out |-> "raise", value |-> "ConnectionError"]
  ELSE IF r.status \in {401, 403, 204} THEN [out |-> "exit", value |-> "1"]
  ELSE IF r.body = "object" THEN [out |-> "return", value |-> r.bulletToken]
  ELSE [out |-> "return", value |-> ""]

\* get_bullet(web_service_token, ...): wv is the outcome of its
\* get_web_view_ver() call, r the answer to POST api/bullet_tokens
get_bullet(wv, r) ==
  IF wv.out # "return" THEN [out |-> wv.out, value |-> wv.value]
  ELSE IF r.kind = "connfail" THEN [out |-> "raise", value |-> "ConnectionError"]
  ELSE IF r.status = 401 THEN [out |-> "exit", value |-> "1"]
  ELSE IF r.status = 403 THEN [out |-> "exit", value |-> "1"]
  ELSE IF r.status = 204 THEN [out |-> "exit", value |-> "1"]
  ELSE IF r.body = "nonjson" \/ r.body = "nonobject" THEN [out |-> "return", value |-> ""]
  ELSE IF r.body = "nofield" THEN [out |-> "exit", value |-> "1"]
  ELSE [out |-> "return", value |-> r.bulletToken]

\* ------------------------------------------------------------- get_gtoken

NoIdResponse == [kind |-> "none", access_token |-> Absent, id_token |-> Absent]
NoUserInfo == [UserInfoFull EXCEPT !.kind = "none"]
NoBody == [f |-> 0, requestId |-> 0, timestamp |-> 0, token |-> Absent]

\* a request as logged: its endpoint, the attestation values and the token
\* it carries, how it was answered and the token the answer held
Req(url, b, answer, got) ==
  [url |-> url, f |-> b.f, requestId |-> b.requestId, timestamp |-> b.timestamp,
   token |-> b.token, answer |-> answer, got |-> got]

\* an answer is "ok" when it is JSON with the fields the code reads from it,
\* "rejected" when it is JSON without one of them
IdAnswer(r) ==
  IF r.kind # "json" THEN r.kind
  ELSE IF r.access_token = Absent THEN "rejected" ELSE "ok"
UserInfoAnswer(r) ==
  IF r.kind # "json" THEN r.kind
  ELSE IF Absent \in {r.nickname, r.language, r.country, r.id} THEN "rejected" ELSE "ok"
LoginAnswer(r) ==
  IF r.kind # "json" THEN r.kind
  ELSE IF r.accessToken = Absent \/ r.userId = NoId THEN "rejected" ELSE "ok"
WsAnswer(r) ==
  IF r.kind # "json" THEN r.kind
  ELSE IF r.accessToken = Absent THEN "rejected" ELSE "ok"

\* ------------------------------------------------ concurrent embedding

\* two callers, as in a service that runs two logins at once
Threads == {1, 2}
NoCall == [pc |-> "none", fn |-> "none", ver |-> Absent, ret |-> Absent]

\* ------------------------------------------------------------------ log_in

\* os.urandom(n) draws n bytes; the model draws RandLen bytes from ByteValues.
\* RandLen = 2 leaves the same remainder modulo 3 as the 32 bytes of line 160,
\* so the encoded verifier ends in one '=' as it does in the program
RandLen == 2
ByteValues == {77, 255}
RandomBytes == [1..RandLen -> ByteValues]

\* a base64 symbol is its index 0..63 in the alphabet; Pad is '='
Pad == 64

\* base64.urlsafe_b64encode(bytes): three bytes give four symbols, a rest of
\* two bytes three symbols and one '=', a rest of one byte two symbols and '=='
RECURSIVE urlsafe_b64encode(_)
urlsafe_b64encode(bytes) ==
  IF Len(bytes) = 0 THEN <<>>
  ELSE IF Len(bytes) = 1 THEN
    <<bytes[1] \div 4, (bytes[1] % 4) * 16, Pad, Pad>>
  ELSE IF Len(bytes) = 2 THEN
    <<bytes[1] \div 4, (bytes[1] % 4) * 16 + bytes[2] \div 16, (bytes[2] % 16) * 4, Pad>>
  ELSE
    <<bytes[1] \div 4, (bytes[1] % 4) * 16 + bytes[2] \div 16,
      (bytes[2] % 16) * 4 + bytes[3] \div 64, bytes[3] % 64>>
    \o urlsafe_b64encode(SubSeq(bytes, 4, Len(bytes)))

\* value.replace(b'=', b'')
strip_padding(value) == SelectSeq(value, LAMBDA c : c # Pad)

\* hashlib.sha256: a digest of two bytes that depends on every symbol
\* of the message and on its length (16 bits stand for the 256)
RECURSIVE sha256_update(_, _)
sha256_update(h, message) ==
  IF message = <<>> THEN h
  ELSE sha256_update((h * 33 + Head(message) + 1) % 65536, Tail(message))
sha256(message) ==
  LET h == sha256_update(5381, message) IN <<h \div 256, h % 256>>

\* a log_in that hashes the verifier with its padding
code_challenge_Padded(verifier) ==
  strip_padding(urlsafe_b64encode(sha256(verifier)))

\* log_in, lines 161-164 and 182: the session_token_code_challenge put into
\* the authorize URL
code_challenge(verifier) ==
  strip_padding(urlsafe_b64encode(sha256(strip_padding(verifier))))

\* what the operator types at the prompt, as a sequence of pieces: "de=" and
\* "&st" are the two literals of the pattern, anything else is other text
SkipInput == <<"skip">>
Inputs ==
  { SkipInput, <<"x">>, <<"de=", "x">>, <<"&st", "de=">>,
    <<"de=", "x", "&st", "y", "&st">>, <<"skip", "de=", "y", "&st">> }

\* a search that is content with "de=" alone
re_search_AnyDe(url) ==
  IF \A i \in DOMAIN url : url[i] # "de=" THEN [matched |-> FALSE, group1 |-> <<>>]
  ELSE LET i == CHOOSE m \in DOMAIN url :
                  url[m] = "de=" /\ \A n \in 1..(m - 1) : url[n] # "de="
       IN [matched |-> TRUE, group1 |-> SubSeq(url, i + 1, Len(url))]

\* re.search('de=(.*)&st', url): the leftmost "de=" that has an "&st" after
\* it, and, the group being greedy, the last "&st" of the input
Matches(url) ==
  { i \in DOMAIN url : url[i] = "de=" /\ \E j \in (i + 1)..Len(url) : url[j] = "&st" }
re_search(url) ==
  IF Matches(url) = {} THEN [matched |-> FALSE, group1 |-> <<>>]
  ELSE LET i == CHOOSE m \in Matches(url) : \A n \in Matches(url) : m <= n
           j == CHOOSE m \in DOMAIN url :
                  url[m] = "&st" /\ \A n \in DOMAIN url : url[n] = "&st" => n <= m
       IN [matched |-> TRUE, group1 |-> SubSeq(url, i + 1, j - 1)]

\* POST connect/1.0.0/api/session_token: exception, body not JSON, JSON that
\* is not an object, an object without session_token, or one with it
SessionResponses == {"connfail", "nonjson", "nonobject", "nofield", "ok"}

\* get_session_token, lines 230-243: outcome for an answer of the request
session_token_outcome(r) ==
  CASE r = "connfail"  -> [out |-> "raise", value |-> "ConnectionError"]
    [] r = "nonjson"   -> [out |-> "exit", value |-> "1"]
    [] r = "nonobject" -> [out |-> "raise", value |-> "TypeError"]
    [] r = "nofield"   -> [out |-> "exit", value |-> "1"]
    [] r = "ok"        -> [out |-> "return", value |-> SessionToken]

\* ------------------------------------------------------------ enter_tokens

\* a typed token is known by its length and its last character
GTOKEN_LEN == 926
BULLETTOKEN_LEN == 124
BULLETTOKEN_SHORT == 123
NoToken == [len |-> 0, lastc |-> ""]
GtokenInputs ==
  {NoToken} \cup { [len |-> n, lastc |-> "x"] : n \in {925, 926, 927} }
BulletInputs ==
  {NoToken} \cup { [len |-> n, lastc |-> c] : n \in {122, 123, 124, 125}, c \in {"x", "="} }

\* a bulletToken loop that completes every 123-character value
bullettoken_loop_AnyShort(t) ==
  IF t.len = BULLETTOKEN_LEN THEN [accepted |-> TRUE, token |-> t]
  ELSE IF t.len = BULLETTOKEN_SHORT
  THEN [accepted |-> TRUE, token |-> [len |-> t.len + 1, lastc |-> "="]]
  ELSE [accepted |-> FALSE, token |-> t]

\* enter_tokens, lines 518-522: what the loop does with a typed bulletToken
bullettoken_loop(t) ==
  IF t.len = BULLETTOKEN_LEN THEN [accepted |-> TRUE, token |-> t]
  ELSE IF t.len = BULLETTOKEN_SHORT /\ t.lastc # "="
  THEN [accepted |-> TRUE, token |-> [len |-> t.len + 1, lastc |-> "="]]
  ELSE [accepted |-> FALSE, token |-> t]

Init ==
  /\ USE_OLD_NSOAPP_VER \in BOOLEAN
  /\ S3S_VERSION = UNKNOWN
  /\ F_GEN_URL = UNKNOWN
  /\ NSOAPP_VERSION = UNKNOWN
  /\ WEB_VIEW_VERSION = UNKNOWN
  /\ pc = "idle"
  /\ calls = 0
  /\ last = [fn |-> "none", out |-> "none", value |-> <<>>, code |-> 0, seen |-> <<>>]
  /\ nsoFirst = Absent /\ nsoLast = Absent
  /\ wvFirst = Absent /\ wvLast = Absent
  /\ id_response = NoIdResponse
  /\ user_info = NoUserInfo
  /\ f_uuid_timestamp = NoTriple
  /\ body = NoBody
  /\ access_token = Unbound
  /\ coral_user_id = Unbound
  /\ requests = <<>>
  /\ attests = <<>>
  /\ bullet_r = NoBulletResponse
  /\ auth_code_verifier = <<>>
  /\ auth_code_challenge = <<>>
  /\ use_account_url = <<>>
  /\ prompts = 0
  /\ session_reqs = <<>>
  /\ new_gtoken = NoToken
  /\ new_bullettoken = NoToken
  /\ typed = NoToken
  /\ th = [t \in Threads |-> NoCall]
  /\ writes = <<>>

\* the locals of get_gtoken and get_bullet, and the record of what the call
\* did, are gone when the next call starts
\* the locals of log_in and enter_tokens are gone when the next call starts
ForgetLogin ==
  /\ auth_code_verifier' = <<>>
  /\ auth_code_challenge' = <<>>
  /\ use_account_url' = <<>>
  /\ prompts' = 0
  /\ session_reqs' = <<>>
ForgetManual ==
  /\ new_gtoken' = NoToken
  /\ new_bullettoken' = NoToken
  /\ typed' = NoToken
ForgetConsole == ForgetLogin /\ ForgetManual /\ UNCHANGED conc

ForgetGtokenLocals ==
  /\ ForgetConsole
  /\ id_response' = NoIdResponse
  /\ user_info' = NoUserInfo
  /\ f_uuid_timestamp' = NoTriple
  /\ body' = NoBody
  /\ access_token' = Unbound
  /\ coral_user_id' = Unbound
  /\ requests' = <<>>
  /\ attests' = <<>>
ForgetLocals == ForgetGtokenLocals /\ bullet_r' = NoBulletResponse

\* a top-level call of get_nsoapp_version()
GetNsoappVersion ==
  /\ pc = "idle" /\ calls < MaxCalls
  /\ \E net \in NsoLookups(USE_OLD_NSOAPP_VER, NSOAPP_VERSION, S3S_VERSION, F_GEN_URL) :
       LET r == get_nsoapp_version(USE_OLD_NSOAPP_VER, NSOAPP_VERSION,
                                   S3S_VERSION, F_GEN_URL, net[1], net[2])
       IN /\ NSOAPP_VERSION' = r.cache
          /\ last' = Seen(Outcome("get_nsoapp_version", r), NsoSeen(net))
          /\ pc' = AfterCall(r.out)
          /\ nsoFirst' = NoteFirst(nsoFirst, r)
          /\ nsoLast' = NoteLast(nsoLast, r)
  /\ calls' = calls + 1
  /\ UNCHANGED <<USE_OLD_NSOAPP_VER, S3S_VERSION, F_GEN_URL, WEB_VIEW_VERSION,
                 wvFirst, wvLast>>
  /\ ForgetLocals

\* a top-level call of get_web_view_ver()
GetWebViewVer ==
  /\ pc = "idle" /\ calls < MaxCalls
  /\ \E web \in WvLookups(WEB_VIEW_VERSION) :
       LET r == get_web_view_ver(WEB_VIEW_VERSION, web[1], web[2])
       IN /\ WEB_VIEW_VERSION' = r.cache
          /\ last' = Seen(Outcome("get_web_view_ver", r), WvSeen(web))
          /\ pc' = AfterCall(r.out)
          /\ wvFirst' = NoteFirst(wvFirst, r)
          /\ wvLast' = NoteLast(wvLast, r)
  /\ calls' = calls + 1
  /\ UNCHANGED <<USE_OLD_NSOAPP_VER, S3S_VERSION, F_GEN_URL, NSOAPP_VERSION,
                 nsoFirst, nsoLast>>
  /\ ForgetLocals

\* get_gtoken, lines 246-294: set the globals, resolve the app version,
\* POST api/token and read access_token from the answer
GG_IdentityToken ==
  /\ pc = "idle" /\ calls < MaxCalls
  /\ calls' = calls + 1
  /\ \E ver \in S3sVersions, url \in FGenUrls, r \in IdResponses :
     \E net \in NsoLookups(USE_OLD_NSOAPP_VER, NSOAPP_VERSION, ver, url) :
       LET nso == get_nsoapp_version(USE_OLD_NSOAPP_VER, NSOAPP_VERSION, ver, url,
                                     net[1], net[2])
       IN /\ S3S_VERSION' = ver
          /\ F_GEN_URL' = url
          /\ NSOAPP_VERSION' = nso.cache
          /\ nsoFirst' = NoteFirst(nsoFirst, nso)
          /\ nsoLast' = NoteLast(nsoLast, nso)
          /\ attests' = <<>>
          /\ user_info' = NoUserInfo
          /\ f_uuid_timestamp' = NoTriple
          /\ body' = NoBody
          /\ access_token' = Unbound
          /\ coral_user_id' = Unbound
          /\ IF nso.out # "return"
             THEN /\ requests' = <<>>
                  /\ id_response' = NoIdResponse
                  /\ pc' = "exit" /\ last' = Exited("get_gtoken")
             ELSE /\ requests' = <<Req("api/token", [NoBody EXCEPT !.token = SessionToken],
                                      IdAnswer(r), r.access_token)>>
                  /\ id_response' = IF r.kind = "json" THEN r ELSE NoIdResponse
                  /\ CASE r.kind = "connfail" ->
                            pc' = "raised" /\ last' = Raised("get_gtoken", "ConnectionError")
                       [] r.kind = "nonjson" ->
                            pc' = "exit" /\ last' = Exited("get_gtoken")
                       [] r.kind = "json" /\ r.access_token = Absent ->
                            pc' = "exit" /\ last' = Exited("get_gtoken")
                       [] OTHER ->
                            pc' = "gg_users_me" /\ last' = Running("get_gtoken")
  /\ bullet_r' = NoBulletResponse
  /\ ForgetConsole
  /\ UNCHANGED <<USE_OLD_NSOAPP_VER, WEB_VIEW_VERSION, wvFirst, wvLast>>

\* get_gtoken, lines 296-307: GET users/me and read nickname, language,
\* country and id from the answer
GG_UsersMe ==
  /\ pc = "gg_users_me"
  /\ \E r \in UserInfoResponses :
       /\ requests' = Append(requests, Req("users/me", [NoBody EXCEPT !.token = id_response.access_token],
                                        UserInfoAnswer(r), Absent))
       /\ user_info' = IF r.kind = "json" THEN r ELSE user_info
       /\ CASE r.kind = "connfail" ->
                 pc' = "raised" /\ last' = Raised("get_gtoken", "ConnectionError")
            [] r.kind = "nonjson" ->
                 pc' = "exit" /\ last' = Exited("get_gtoken")
            [] r.kind = "json" /\ Absent \in {r.nickname, r.language, r.country, r.id} ->
                 pc' = "raised" /\ last' = Raised("get_gtoken", "KeyError")
            [] OTHER ->
                 pc' = "gg_f1" /\ UNCHANGED last
  /\ UNCHANGED <<globals, calls, hist, id_response, f_uuid_timestamp, body,
                 access_token, coral_user_id, attests, bullet_r>>
  /\ UNCHANGED <<login, manual, conc>>

\* get_gtoken, lines 310-331: read id_token, call_f_api(id_token, 1, ...)
\* and build the parameter of the Account/Login request
GG_Attest1 ==
  /\ pc = "gg_f1"
  /\ IF id_response.id_token = Absent
     THEN /\ pc' = "exit" /\ last' = Exited("get_gtoken")
          /\ UNCHANGED <<NSOAPP_VERSION, nsoFirst, nsoLast, attests, f_uuid_timestamp, body>>
     ELSE \E api \in AttestOutcomes,
          net \in NsoLookups(USE_OLD_NSOAPP_VER, NSOAPP_VERSION, S3S_VERSION, F_GEN_URL) :
            LET nso == get_nsoapp_version(USE_OLD_NSOAPP_VER, NSOAPP_VERSION,
                                          S3S_VERSION, F_GEN_URL, net[1], net[2])
                c == call_f_api(id_response.id_token, 1, user_info.id, Absent,
                                nso, api, Len(attests) + 1)
            IN /\ NSOAPP_VERSION' = nso.cache
               /\ nsoFirst' = NoteFirst(nsoFirst, nso)
               /\ nsoLast' = NoteLast(nsoLast, nso)
               /\ attests' = NoteAttest(attests, c, Len(requests))
               /\ IF c.out = "return"
                  THEN /\ f_uuid_timestamp' = c.ret
                       /\ IF user_info.birthday = Absent
                          THEN /\ pc' = "exit" /\ last' = Exited("get_gtoken")
                               /\ UNCHANGED body
                          ELSE /\ body' = [f |-> c.ret.f, requestId |-> c.ret.uuid,
                                           timestamp |-> c.ret.timestamp,
                                           token |-> id_response.id_token]
                               /\ pc' = "gg_login" /\ UNCHANGED last
                  ELSE /\ pc' = "exit" /\ last' = Exited("get_gtoken")
                       /\ UNCHANGED <<f_uuid_timestamp, body>>
  /\ UNCHANGED <<USE_OLD_NSOAPP_VER, S3S_VERSION, F_GEN_URL, WEB_VIEW_VERSION, calls,
                 wvFirst, wvLast, id_response, user_info, access_token, coral_user_id,
                 requests, bullet_r>>
  /\ UNCHANGED <<login, manual, conc>>

\* get_gtoken, lines 358-360: the retry puts the regenerated f, uuid and
\* timestamp into the parameter of the Account/Login request
LoginRetryBody(b, ret) ==
  [b EXCEPT !.f = ret.f, !.requestId = ret.uuid, !.timestamp = ret.timestamp]

\* a retry loop that tries again after every rejection
AfterLoginRetry_Again(answer) == IF answer = "ok" THEN "gg_f2" ELSE "gg_login_retry_f"

\* get_gtoken, lines 364-371: where the run goes after the answer to the
\* second Account/Login request
AfterLoginRetry(answer) == IF answer = "ok" THEN "gg_f2" ELSE "exit"

\* a retry that resubmits the parameter it sent before
WsRetryBody_Stale(b, ret) == b

\* get_gtoken, lines 410-412: the retry puts the regenerated f, uuid and
\* timestamp into the parameter of the Game/GetWebServiceToken request
WsRetryBody(b, ret) ==
  [b EXCEPT !.f = ret.f, !.requestId = ret.uuid, !.timestamp = ret.timestamp]

\* a retry that returns whatever the second answer holds
AfterWsRetry_Lenient(answer) == "idle"

\* get_gtoken, lines 415-422: where the run goes after the answer to the
\* second Game/GetWebServiceToken request
AfterWsRetry(answer) == IF answer = "ok" THEN "idle" ELSE "exit"

\* get_gtoken, lines 343-354: POST Account/Login and read the coral access
\* token and the coral user id from the answer
GG_AccountLogin ==
  /\ pc = "gg_login"
  /\ \E r \in CoralResponses :
       /\ requests' = Append(requests, Req("Account/Login", body, LoginAnswer(r), r.accessToken))
       /\ CASE r.kind = "connfail" ->
                 /\ pc' = "raised" /\ last' = Raised("get_gtoken", "ConnectionError")
                 /\ UNCHANGED <<access_token, coral_user_id>>
            [] r.kind = "nonjson" ->
                 /\ pc' = "exit" /\ last' = Exited("get_gtoken")
                 /\ UNCHANGED <<access_token, coral_user_id>>
            [] r.kind = "json" /\ r.accessToken = Absent ->
                 /\ pc' = "gg_login_retry_f" /\ UNCHANGED last
                 /\ UNCHANGED <<access_token, coral_user_id>>
            [] r.kind = "json" /\ r.accessToken # Absent /\ r.userId = NoId ->
                 /\ access_token' = r.accessToken
                 /\ pc' = "gg_login_retry_f" /\ UNCHANGED last
                 /\ UNCHANGED coral_user_id
            [] OTHER ->
                 /\ access_token' = r.accessToken
                 /\ coral_user_id' = ToString(r.userId)
                 /\ pc' = "gg_ws" /\ UNCHANGED last
  /\ UNCHANGED <<globals, calls, hist, id_response, user_info, f_uuid_timestamp, body, attests, bullet_r>>
  /\ UNCHANGED <<login, manual, conc>>

\* get_gtoken, lines 356-361: the retry's call_f_api(access_token, 1, ...);
\* access_token is the local that line 352 assigns
GG_LoginRetryAttest ==
  /\ pc = "gg_login_retry_f"
  /\ IF access_token = Unbound
     THEN /\ pc' = "exit" /\ last' = Exited("get_gtoken")
          /\ UNCHANGED <<NSOAPP_VERSION, nsoFirst, nsoLast, attests, f_uuid_timestamp, body>>
     ELSE \E api \in AttestOutcomes,
          net \in NsoLookups(USE_OLD_NSOAPP_VER, NSOAPP_VERSION, S3S_VERSION, F_GEN_URL) :
            LET nso == get_nsoapp_version(USE_OLD_NSOAPP_VER, NSOAPP_VERSION,
                                          S3S_VERSION, F_GEN_URL, net[1], net[2])
                c == call_f_api(access_token, 1, user_info.id, Absent,
                                nso, api, Len(attests) + 1)
            IN /\ NSOAPP_VERSION' = nso.cache
               /\ nsoFirst' = NoteFirst(nsoFirst, nso)
               /\ nsoLast' = NoteLast(nsoLast, nso)
               /\ attests' = NoteAttest(attests, c, Len(requests))
               /\ IF c.out = "return"
                  THEN /\ f_uuid_timestamp' = c.ret
                       /\ body' = LoginRetryBody(body, c.ret)
                       /\ pc' = "gg_login_retry" /\ UNCHANGED last
                  ELSE /\ pc' = "exit" /\ last' = Exited("get_gtoken")
                       /\ UNCHANGED <<f_uuid_timestamp, body>>
  /\ UNCHANGED <<USE_OLD_NSOAPP_VER, S3S_VERSION, F_GEN_URL, WEB_VIEW_VERSION, calls,
                 wvFirst, wvLast, id_response, user_info, access_token, coral_user_id,
                 requests, bullet_r>>
  /\ UNCHANGED <<login, manual, conc>>

\* get_gtoken, lines 362-371: POST Account/Login again and read the coral
\* access token and the coral user id; any failure exits
GG_AccountLoginRetry ==
  /\ pc = "gg_login_retry"
  /\ \E r \in CoralResponses :
       /\ requests' = Append(requests, Req("Account/Login", body, LoginAnswer(r), r.accessToken))
       /\ access_token' = IF r.kind = "json" /\ r.accessToken # Absent
                          THEN r.accessToken ELSE access_token
       /\ coral_user_id' = IF LoginAnswer(r) = "ok" THEN ToString(r.userId)
                           ELSE coral_user_id
       /\ pc' = AfterLoginRetry(LoginAnswer(r))
       /\ last' = IF pc' = "exit" THEN Exited("get_gtoken") ELSE last
  /\ UNCHANGED <<globals, calls, hist, id_response, user_info, f_uuid_timestamp, body, attests, bullet_r>>
  /\ UNCHANGED <<login, manual, conc>>

\* get_gtoken, line 373 (inside the except block of line 354):
\* call_f_api(access_token, 2, ..., coral_user_id)
GG_Attest2 ==
  /\ pc = "gg_f2"
  /\ \E api \in AttestOutcomes,
          net \in NsoLookups(USE_OLD_NSOAPP_VER, NSOAPP_VERSION, S3S_VERSION, F_GEN_URL) :
       LET nso == get_nsoapp_version(USE_OLD_NSOAPP_VER, NSOAPP_VERSION,
                                     S3S_VERSION, F_GEN_URL, net[1], net[2])
           c == call_f_api(access_token, 2, user_info.id, coral_user_id,
                           nso, api, Len(attests) + 1)
       IN /\ NSOAPP_VERSION' = nso.cache
          /\ nsoFirst' = NoteFirst(nsoFirst, nso)
          /\ nsoLast' = NoteLast(nsoLast, nso)
          /\ attests' = NoteAttest(attests, c, Len(requests))
          /\ IF c.out = "return"
             THEN /\ f_uuid_timestamp' = c.ret
                  /\ pc' = "gg_ws" /\ UNCHANGED last
             ELSE /\ pc' = "exit" /\ last' = Exited("get_gtoken")
                  /\ UNCHANGED f_uuid_timestamp
  /\ UNCHANGED <<USE_OLD_NSOAPP_VER, S3S_VERSION, F_GEN_URL, WEB_VIEW_VERSION, calls,
                 wvFirst, wvLast, id_response, user_info, body, access_token,
                 coral_user_id, requests, bullet_r>>
  /\ UNCHANGED <<login, manual, conc>>

\* a result tuple with language and country in each other's place
GtokenResult_Swapped(web_service_token) ==
  <<web_service_token, user_info.nickname, user_info.country, user_info.language>>

\* the tuple get_gtoken returns
GtokenResult(web_service_token) ==
  <<web_service_token, user_info.nickname, user_info.language, user_info.country>>

\* get_gtoken, lines 376-406 and 422: build the parameter from f, uuid,
\* timestamp and access_token, POST Game/GetWebServiceToken and read
\* result.accessToken
GG_GetWebServiceToken ==
  /\ pc = "gg_ws"
  /\ body' = [f |-> f_uuid_timestamp.f, requestId |-> f_uuid_timestamp.uuid,
              timestamp |-> f_uuid_timestamp.timestamp, token |-> access_token]
  /\ \E r \in WsResponses :
     /\ requests' = Append(requests, Req("Game/GetWebServiceToken", body',
                                         WsAnswer(r), r.accessToken))
     /\ CASE r.kind = "connfail" ->
              pc' = "raised" /\ last' = Raised("get_gtoken", "ConnectionError")
         [] r.kind = "nonjson" ->
              pc' = "exit" /\ last' = Exited("get_gtoken")
         [] r.kind = "json" /\ r.accessToken = Absent ->
              pc' = "gg_ws_retry_f" /\ UNCHANGED last
         [] OTHER ->
              pc' = "idle" /\ last' = Returned("get_gtoken", GtokenResult(r.accessToken))
  /\ UNCHANGED <<globals, calls, hist, id_response, user_info, f_uuid_timestamp,
                 access_token, coral_user_id, attests, bullet_r>>
  /\ UNCHANGED <<login, manual, conc>>

\* get_gtoken, lines 408-412: the retry's call_f_api(access_token, 2, ...,
\* coral_user_id)
GG_WsRetryAttest ==
  /\ pc = "gg_ws_retry_f"
  /\ \E api \in AttestOutcomes,
          net \in NsoLookups(USE_OLD_NSOAPP_VER, NSOAPP_VERSION, S3S_VERSION, F_GEN_URL) :
       LET nso == get_nsoapp_version(USE_OLD_NSOAPP_VER, NSOAPP_VERSION,
                                     S3S_VERSION, F_GEN_URL, net[1], net[2])
           c == call_f_api(access_token, 2, user_info.id, coral_user_id,
                           nso, api, Len(attests) + 1)
       IN /\ NSOAPP_VERSION' = nso.cache
          /\ nsoFirst' = NoteFirst(nsoFirst, nso)
          /\ nsoLast' = NoteLast(nsoLast, nso)
          /\ attests' = NoteAttest(attests, c, Len(requests))
          /\ IF c.out = "return"
             THEN /\ f_uuid_timestamp' = c.ret
                  /\ body' = WsRetryBody(body, c.ret)
                  /\ pc' = "gg_ws_retry" /\ UNCHANGED last
             ELSE /\ pc' = "exit" /\ last' = Exited("get_gtoken")
                  /\ UNCHANGED <<f_uuid_timestamp, body>>
  /\ UNCHANGED <<USE_OLD_NSOAPP_VER, S3S_VERSION, F_GEN_URL, WEB_VIEW_VERSION, calls,
                 wvFirst, wvLast, id_response, user_info, access_token, coral_user_id,
                 requests, bullet_r>>
  /\ UNCHANGED <<login, manual, conc>>

\* get_gtoken, lines 413-422: POST Game/GetWebServiceToken again and read
\* result.accessToken; any failure exits
GG_GetWebServiceTokenRetry ==
  /\ pc = "gg_ws_retry"
  /\ \E r \in WsResponses :
     /\ requests' = Append(requests, Req("Game/GetWebServiceToken", body,
                                         WsAnswer(r), r.accessToken))
     /\ pc' = AfterWsRetry(WsAnswer(r))
     /\ last' = CASE pc' = "idle" -> Returned("get_gtoken", GtokenResult(r.accessToken))
                  [] pc' = "exit" -> Exited("get_gtoken")
                  [] OTHER -> last
  /\ UNCHANGED <<globals, calls, hist, locals, attests, bullet_r>>
  /\ UNCHANGED <<login, manual, conc>>

\* the call before was a get_gtoken run that returned after four requests,
\* each answered at the first attempt
FirstPass ==
  /\ last.fn = "get_gtoken" /\ last.out = "return"
  /\ Len(requests) = 4 /\ \A i \in DOMAIN requests : requests[i].answer = "ok"

\* a call of get_bullet(web_service_token, app_user_agent, user_lang, user_country);
\* chained tells that the token passed is the one a first-pass get_gtoken
\* run has just returned
GetBullet ==
  /\ pc = "idle" /\ calls < MaxCalls
  /\ calls' = calls + 1
  /\ \E gtoken \in WebServiceTokens, web \in WvLookups(WEB_VIEW_VERSION),
        r \in BulletResponses :
       LET wv == get_web_view_ver(WEB_VIEW_VERSION, web[1], web[2])
           b == get_bullet(wv, r)
       IN /\ WEB_VIEW_VERSION' = wv.cache
          /\ wvFirst' = NoteFirst(wvFirst, wv)
          /\ wvLast' = NoteLast(wvLast, wv)
          /\ bullet_r' = IF wv.out = "return"
                         THEN [gtoken |-> gtoken, kind |-> r.kind, status |-> r.status,
                               body |-> r.body, bulletToken |-> r.bulletToken,
                               chained |-> FirstPass /\ last.value[1] = gtoken]
                         ELSE NoBulletResponse
          /\ last' = Outcome("get_bullet", b)
          /\ pc' = AfterCall(b.out)
  /\ UNCHANGED <<USE_OLD_NSOAPP_VER, S3S_VERSION, F_GEN_URL, NSOAPP_VERSION,
                 nsoFirst, nsoLast>>
  /\ ForgetGtokenLocals

\* log_in, lines 151-191: set the globals, generate the verifier, derive
\* the challenge, print the authorize URL and wait at the prompt
LogIn ==
  /\ pc = "idle" /\ calls < MaxCalls
  /\ calls' = calls + 1
  /\ \E ver \in S3sVersions, url \in FGenUrls, bytes \in RandomBytes :
       /\ S3S_VERSION' = ver
       /\ F_GEN_URL' = url
       /\ auth_code_verifier' = urlsafe_b64encode(bytes)
       /\ auth_code_challenge' = code_challenge(urlsafe_b64encode(bytes))
  /\ use_account_url' = <<>>
  /\ prompts' = 0
  /\ session_reqs' = <<>>
  /\ pc' = "li_prompt" /\ last' = Running("log_in")
  /\ id_response' = NoIdResponse
  /\ user_info' = NoUserInfo
  /\ f_uuid_timestamp' = NoTriple
  /\ body' = NoBody
  /\ access_token' = Unbound
  /\ coral_user_id' = Unbound
  /\ requests' = <<>> /\ attests' = <<>>
  /\ bullet_r' = NoBulletResponse
  /\ ForgetManual
  /\ UNCHANGED <<USE_OLD_NSOAPP_VER, NSOAPP_VERSION, WEB_VIEW_VERSION, hist, conc>>

\* log_in, lines 192-204, one turn of the loop with an input typed: "skip"
\* returns it, an input without a match prompts again, a match calls
\* get_session_token (lines 207-243), inside the try of line 193
LI_Input ==
  /\ pc = "li_prompt" /\ prompts < MaxPrompts
  /\ prompts' = prompts + 1
  /\ \E u \in Inputs :
       /\ use_account_url' = u
       /\ IF u = SkipInput
          THEN /\ pc' = "idle" /\ last' = Returned("log_in", <<"skip">>)
               /\ UNCHANGED <<NSOAPP_VERSION, nsoFirst, nsoLast, session_reqs>>
          ELSE IF ~re_search(u).matched
          THEN UNCHANGED <<pc, last, NSOAPP_VERSION, nsoFirst, nsoLast, session_reqs>>
          ELSE \E r \in SessionResponses,
                  net \in NsoLookups(USE_OLD_NSOAPP_VER, NSOAPP_VERSION,
                                     S3S_VERSION, F_GEN_URL) :
                 LET nso == get_nsoapp_version(USE_OLD_NSOAPP_VER, NSOAPP_VERSION,
                                               S3S_VERSION, F_GEN_URL, net[1], net[2])
                     o == session_token_outcome(r)
                 IN /\ NSOAPP_VERSION' = nso.cache
                    /\ nsoFirst' = NoteFirst(nsoFirst, nso)
                    /\ nsoLast' = NoteLast(nsoLast, nso)
                    /\ IF nso.out # "return"
                       THEN /\ pc' = "exit" /\ last' = Exited("log_in")
                            /\ UNCHANGED session_reqs
                       ELSE /\ session_reqs' =
                                 Append(session_reqs,
                                        [session_token_code |-> re_search(u).group1,
                                         session_token_code_verifier |->
                                           strip_padding(auth_code_verifier),
                                         answer |-> r])
                            /\ pc' = AfterCall(o.out)
                            /\ last' = Outcome("log_in", o)
  /\ UNCHANGED <<USE_OLD_NSOAPP_VER, S3S_VERSION, F_GEN_URL, WEB_VIEW_VERSION, calls,
                 wvFirst, wvLast, locals, logs, bullet_r,
                 auth_code_verifier, auth_code_challenge, manual, conc>>

\* log_in, lines 199-201: Ctrl+C at the prompt
LI_Interrupt ==
  /\ pc = "li_prompt"
  /\ pc' = "exit" /\ last' = Exited("log_in")
  /\ UNCHANGED <<globals, calls, hist, locals, logs, bullet_r, login, manual, conc>>

\* a typed token as it is returned
Show(t) == ToString(t.len) \o t.lastc

\* enter_tokens, lines 508-512: print the instructions
EnterTokens ==
  /\ pc = "idle" /\ calls < MaxCalls
  /\ calls' = calls + 1
  /\ pc' = "et_gtoken" /\ last' = Running("enter_tokens")
  /\ id_response' = NoIdResponse
  /\ user_info' = NoUserInfo
  /\ f_uuid_timestamp' = NoTriple
  /\ body' = NoBody
  /\ access_token' = Unbound
  /\ coral_user_id' = Unbound
  /\ requests' = <<>> /\ attests' = <<>>
  /\ bullet_r' = NoBulletResponse
  /\ ForgetLogin /\ ForgetManual
  /\ UNCHANGED <<globals, hist, conc>>

\* enter_tokens, lines 514-516: read a gtoken and test its length
ET_Gtoken ==
  /\ pc = "et_gtoken" /\ prompts < MaxPrompts
  /\ prompts' = prompts + 1
  /\ \E g \in GtokenInputs :
       /\ new_gtoken' = g
       /\ pc' = IF g.len # GTOKEN_LEN THEN "et_gtoken" ELSE "et_bullet"
  /\ UNCHANGED <<globals, calls, last, hist, locals, logs, bullet_r,
                 auth_code_verifier, auth_code_challenge, use_account_url, session_reqs,
                 new_bullettoken, typed, conc>>

\* enter_tokens, lines 518-525: read a bulletToken, run the loop of line 519
\* until it asks for input again or ends, and return both tokens
ET_Bullet ==
  /\ pc = "et_bullet" /\ prompts < MaxPrompts
  /\ prompts' = prompts + 1
  /\ \E t \in BulletInputs :
       /\ typed' = t
       /\ new_bullettoken' = bullettoken_loop(t).token
       /\ IF bullettoken_loop(t).accepted
          THEN /\ pc' = "idle"
               /\ last' = Returned("enter_tokens",
                                   <<Show(new_gtoken), Show(bullettoken_loop(t).token)>>)
          ELSE UNCHANGED <<pc, last>>
  /\ UNCHANGED <<globals, calls, hist, locals, logs, bullet_r,
                 auth_code_verifier, auth_code_challenge, use_account_url, session_reqs,
                 new_gtoken, conc>>

Next ==
  \/ GetBullet
  \/ LogIn
  \/ LI_Input
  \/ LI_Interrupt
  \/ EnterTokens
  \/ ET_Gtoken
  \/ ET_Bullet
  \/ GetNsoappVersion
  \/ GetWebViewVer
  \/ GG_IdentityToken
  \/ GG_UsersMe
  \/ GG_Attest1
  \/ GG_AccountLogin
  \/ GG_LoginRetryAttest
  \/ GG_AccountLoginRetry
  \/ GG_Attest2
  \/ GG_GetWebServiceToken
  \/ GG_WsRetryAttest
  \/ GG_GetWebServiceTokenRetry

Spec == Init /\ [][Next]_vars

\* --------------------------------- two callers of the resolvers at once

\* the embedding has set the globals, as log_in and get_gtoken do, and no
\* call of the module is under way
InitConc ==
  /\ USE_OLD_NSOAPP_VER \in BOOLEAN
  /\ S3S_VERSION \in S3sVersions
  /\ F_GEN_URL \in FGenUrls
  /\ NSOAPP_VERSION = UNKNOWN
  /\ WEB_VIEW_VERSION = UNKNOWN
  /\ pc = "idle" /\ calls = 0
  /\ last = [fn |-> "none", out |-> "none", value |-> <<>>, code |-> 0, seen |-> <<>>]
  /\ nsoFirst = Absent /\ nsoLast = Absent /\ wvFirst = Absent /\ wvLast = Absent
  /\ id_response = NoIdResponse
  /\ user_info = NoUserInfo
  /\ f_uuid_timestamp = NoTriple
  /\ body = NoBody
  /\ access_token = Unbound
  /\ coral_user_id = Unbound
  /\ requests = <<>> /\ attests = <<>>
  /\ bullet_r = NoBulletResponse
  /\ auth_code_verifier = <<>>
  /\ auth_code_challenge = <<>>
  /\ use_account_url = <<>>
  /\ prompts = 0
  /\ session_reqs = <<>>
  /\ new_gtoken = NoToken
  /\ new_bullettoken = NoToken
  /\ typed = NoToken
  /\ th = [t \in Threads |-> NoCall]
  /\ writes = <<>>

sequential == <<S3S_VERSION, F_GEN_URL, USE_OLD_NSOAPP_VER, ctl, hist, locals, logs,
                bullet_r, login, manual>>

\* the cache a resolver reads and writes
CacheOf(fn) == IF fn = "get_nsoapp_version" THEN NSOAPP_VERSION ELSE WEB_VIEW_VERSION

\* an assignment that keeps the value already there
cache_write_Once(cache, ver) == IF cache = UNKNOWN THEN ver ELSE cache

\* lines 56, 66 and 146: NSOAPP_VERSION = ver, WEB_VIEW_VERSION = ver_string
cache_write(cache, ver) == ver

\* a caller ends: with a returned value, or by sys.exit or an exception
Done(c, ret) == [c EXCEPT !.pc = "done", !.ret = ret]

\* lines 33-39: get_nsoapp_version() up to and including the test of the cache
T_CallNso(t) ==
  /\ th[t].pc = "none"
  /\ LET c == [th[t] EXCEPT !.fn = "get_nsoapp_version"]
     IN th' = [th EXCEPT ![t] =
                 IF USE_OLD_NSOAPP_VER THEN Done(c, NSOAPP_VER_FALLBACK)
                 ELSE IF NSOAPP_VERSION # UNKNOWN THEN Done(c, NSOAPP_VERSION)
                 ELSE [c EXCEPT !.pc = "config"]]
  /\ UNCHANGED <<sequential, NSOAPP_VERSION, WEB_VIEW_VERSION, writes>>

\* lines 49-54: the config request and its answer
T_Config(t) ==
  /\ th[t].pc = "config"
  /\ \E cfg \in ConfigOutcomes :
       th' = [th EXCEPT ![t] =
                IF cfg \in NsoVersions THEN [@ EXCEPT !.pc = "write", !.ver = cfg]
                ELSE [@ EXCEPT !.pc = "store"]]
  /\ UNCHANGED <<sequential, NSOAPP_VERSION, WEB_VIEW_VERSION, writes>>

\* lines 60-64 and 72: the app store request and its answer
T_Store(t) ==
  /\ th[t].pc = "store"
  /\ \E store \in StoreOutcomes :
       th' = [th EXCEPT ![t] =
                IF store \in NsoVersions THEN [@ EXCEPT !.pc = "write", !.ver = store]
                ELSE Done(@, NSOAPP_VER_FALLBACK)]
  /\ UNCHANGED <<sequential, NSOAPP_VERSION, WEB_VIEW_VERSION, writes>>

\* lines 78-80: get_web_view_ver() up to and including the test of the cache
T_CallWv(t) ==
  /\ th[t].pc = "none"
  /\ LET c == [th[t] EXCEPT !.fn = "get_web_view_ver"]
     IN th' = [th EXCEPT ![t] =
                 IF WEB_VIEW_VERSION # UNKNOWN THEN Done(c, WEB_VIEW_VERSION)
                 ELSE [c EXCEPT !.pc = "home"]]
  /\ UNCHANGED <<sequential, NSOAPP_VERSION, WEB_VIEW_VERSION, writes>>

\* lines 104-117: the request for the home page and its answer
T_Home(t) ==
  /\ th[t].pc = "home"
  /\ \E home \in HomeOutcomes :
       th' = [th EXCEPT ![t] =
                CASE home = "connfail" -> Done(@, "<exit>")
                  [] home = "ok"       -> [@ EXCEPT !.pc = "script"]
                  [] OTHER             -> Done(@, WEB_VIEW_VER_FALLBACK)]
  /\ UNCHANGED <<sequential, NSOAPP_VERSION, WEB_VIEW_VERSION, writes>>

\* lines 134-144: the request for main.js and its answer
T_Script(t) ==
  /\ th[t].pc = "script"
  /\ \E script \in ScriptOutcomes :
       th' = [th EXCEPT ![t] =
                CASE script.kind = "connfail" -> Done(@, "<raised>")
                  [] script.kind = "match" ->
                       [@ EXCEPT !.pc = "write", !.ver = ver_string(script)]
                  [] OTHER -> Done(@, WEB_VIEW_VER_FALLBACK)]
  /\ UNCHANGED <<sequential, NSOAPP_VERSION, WEB_VIEW_VERSION, writes>>

\* lines 56, 66 and 146: the assignment to the global
T_Write(t) ==
  /\ th[t].pc = "write"
  /\ IF th[t].fn = "get_nsoapp_version"
     THEN /\ NSOAPP_VERSION' = cache_write(NSOAPP_VERSION, th[t].ver)
          /\ UNCHANGED WEB_VIEW_VERSION
     ELSE /\ WEB_VIEW_VERSION' = cache_write(WEB_VIEW_VERSION, th[t].ver)
          /\ UNCHANGED NSOAPP_VERSION
  /\ writes' = Append(writes, [by |-> t, fn |-> th[t].fn,
                               value |-> IF th[t].fn = "get_nsoapp_version"
                                         THEN NSOAPP_VERSION' ELSE WEB_VIEW_VERSION'])
  /\ th' = [th EXCEPT ![t].pc = "return"]
  /\ UNCHANGED sequential

\* lines 58, 68 and 148: return NSOAPP_VERSION, return WEB_VIEW_VERSION
T_Return(t) ==
  /\ th[t].pc = "return"
  /\ th' = [th EXCEPT ![t] = Done(@, CacheOf(th[t].fn))]
  /\ UNCHANGED <<sequential, NSOAPP_VERSION, WEB_VIEW_VERSION, writes>>

NextConc ==
  \/ \E t \in Threads : T_CallNso(t)
  \/ \E t \in Threads : T_Config(t)
  \/ \E t \in Threads : T_Store(t)
  \/ \E t \in Threads : T_CallWv(t)
  \/ \E t \in Threads : T_Home(t)
  \/ \E t \in Threads : T_Script(t)
  \/ \E t \in Threads : T_Write(t)
  \/ \E t \in Threads : T_Return(t)

SpecConc == InitConc /\ [][NextConc]_vars

\* ------------------------------------------------ what a get_gtoken run did

LoginReqs == SelectSeq(requests, LAMBDA q : q.url = "Account/Login")
WsReqs == SelectSeq(requests, LAMBDA q : q.url = "Game/GetWebServiceToken")
SignedReqs == { i \in DOMAIN requests :
                  requests[i].url \in {"Account/Login", "Game/GetWebServiceToken"} }
\* the position of the first request to url
FirstReq(url) ==
  CHOOSE i \in DOMAIN requests :
    requests[i].url = url /\ \A j \in 1..(i - 1) : requests[j].url # url
\* the attestation calls made right after the k-th request of the run
AttestsAfter(k) == { i \in DOMAIN attests : attests[i].after = k }
\* request q carries the f, request_id and timestamp that attestation call a returned
Carries(q, a) ==
  /\ a.out = "return"
  /\ q.f = a.ret.f /\ q.requestId = a.ret.uuid /\ q.timestamp = a.ret.timestamp
GtokenExited == pc = "exit" /\ last = Exited("get_gtoken")

\* ------------------------------------------------------------------ claims

\* C1: when the first Account/Login answer is JSON without the coral access
\* token or the coral user id, exactly one step-1 attestation call follows
\* and (once it has answered) exactly one more Account/Login request is sent,
\* carrying the regenerated f, requestId and timestamp; a second rejection
\* exits, and there is never a third Account/Login request.
C1_LoginRetriedExactlyOnce ==
  (Len(LoginReqs) >= 1 /\ LoginReqs[1].answer = "rejected" /\ pc # "gg_login_retry_f")
  => LET calls1 == AttestsAfter(FirstReq("Account/Login"))
     IN /\ Cardinality(calls1) = 1
        /\ \A i \in calls1 :
             /\ attests[i].step = 1
             /\ (attests[i].out = "return" /\ pc # "gg_login_retry")
                  => (Len(LoginReqs) >= 2 /\ Carries(LoginReqs[2], attests[i]))
        /\ Len(LoginReqs) <= 2
        /\ (Len(LoginReqs) = 2 /\ LoginReqs[2].answer = "rejected") => GtokenExited

\* C2: no attestation result is reused: two signed requests of a run never
\* carry the same (f, requestId, timestamp), and each carries what some
\* attestation call of the run returned.
C2_NoAttestationReuse ==
  /\ \A i, j \in SignedReqs :
       i # j => <<requests[i].f, requests[i].requestId, requests[i].timestamp>>
                  # <<requests[j].f, requests[j].requestId, requests[j].timestamp>>
  /\ \A i \in SignedReqs : \E k \in DOMAIN attests : Carries(requests[i], attests[k])

\* C3: every Game/GetWebServiceToken request carries f, requestId and
\* timestamp returned by a step-2 attestation call made with the coral
\* access token and the coral user id.
C3_WsSignedAtStep2 ==
  \A i \in DOMAIN requests :
    requests[i].url = "Game/GetWebServiceToken"
    => \E k \in DOMAIN attests :
         /\ attests[k].step = 2
         /\ attests[k].token = requests[i].token
         /\ attests[k].coral_user_id = coral_user_id
         /\ Carries(requests[i], attests[k])

\* C4: a run of get_gtoken sends at most two Account/Login requests and at
\* most two Game/GetWebServiceToken requests.
C4_AtMostOneRetryPerStage ==
  Len(LoginReqs) <= 2 /\ Len(WsReqs) <= 2

\* a run that retried both stages and was rejected again at the end
C4_Witness ==
  /\ Len(LoginReqs) = 2 /\ Len(WsReqs) = 2
  /\ WsReqs[2].answer = "rejected" /\ GtokenExited

\* C5: when the first Game/GetWebServiceToken answer is JSON without
\* result.accessToken, exactly one step-2 attestation call follows, made with
\* the coral access token and the coral user id; once it has answered, exactly
\* one more Game/GetWebServiceToken request is sent, carrying the regenerated
\* f, requestId and timestamp (a failed attestation exits with code 1
\* instead); if the second answer lacks the token or is not JSON the process
\* exits with code 1, otherwise get_gtoken returns the token of the second
\* answer.
C5_WsRetriedExactlyOnce ==
  (Len(WsReqs) >= 1 /\ WsReqs[1].answer = "rejected" /\ pc # "gg_ws_retry_f")
  => LET calls2 == AttestsAfter(FirstReq("Game/GetWebServiceToken"))
     IN /\ Cardinality(calls2) = 1
        /\ \A i \in calls2 :
             /\ attests[i].step = 2
             /\ attests[i].token = access_token
             /\ attests[i].token = LoginReqs[Len(LoginReqs)].got
             /\ attests[i].coral_user_id = coral_user_id
             /\ attests[i].out = "return"
                  => \/ pc = "gg_ws_retry" /\ Len(WsReqs) = 1
                     \/ Len(WsReqs) = 2 /\ Carries(WsReqs[2], attests[i])
             /\ attests[i].out # "return" => (Len(WsReqs) = 1 /\ GtokenExited)
        /\ Len(WsReqs) <= 2
        /\ Len(WsReqs) = 2 =>
             IF WsReqs[2].answer = "ok"
             THEN /\ pc = "idle"
                  /\ last = Returned("get_gtoken", GtokenResult(WsReqs[2].got))
             ELSE GtokenExited

\* the retry of the web-service-token stage succeeded
C5_Witness ==
  /\ Len(WsReqs) = 2 /\ WsReqs[1].answer = "rejected" /\ WsReqs[2].answer = "ok"
  /\ WsReqs[2].f # WsReqs[1].f
  /\ last.fn = "get_gtoken" /\ last.out = "return"

\* C6: cache-once law: every call of get_nsoapp_version returns what the
\* first call returned, and likewise for get_web_view_ver, whatever the
\* network answers later.
C6_CacheOnce ==
  /\ nsoFirst # Absent => nsoLast = nsoFirst
  /\ wvFirst # Absent => wvLast = wvFirst

\* C7 as claimed: get_nsoapp_version returns in every state of the globals.
C7_NeverFails ==
  last.fn = "get_nsoapp_version" => last.out = "return"

\* C7 (amended): once S3S_VERSION and F_GEN_URL are set, or with
\* USE_OLD_NSOAPP_VER, get_nsoapp_version returns a version (a looked-up one
\* or NSOAPP_VER_FALLBACK) whatever the two requests answer, and never exits
\* or raises; with a global still unset it exits with code 1.  get_gtoken
\* sets the globals before it calls get_nsoapp_version (line 253), so it never
\* ends there: when it exits, its first request has been sent.
C7_NeverFailsOnceConfigured ==
  /\ last.fn = "get_nsoapp_version" =>
       IF USE_OLD_NSOAPP_VER \/ (S3S_VERSION # UNKNOWN /\ F_GEN_URL # UNKNOWN)
       THEN /\ last.out = "return"
            /\ \E v \in NsoVersions \cup {NSOAPP_VER_FALLBACK} : last.value = <<v>>
       ELSE last.out = "exit" /\ last.code = 1
  /\ (last.fn = "get_gtoken" /\ last.out = "exit") => Len(requests) >= 1

\* both lookups failed and the fallback was returned
C7_Witness ==
  /\ last.fn = "get_nsoapp_version" /\ last.out = "return"
  /\ ~USE_OLD_NSOAPP_VER
  /\ Len(last.seen) = 2 /\ last.seen[1] \notin NsoVersions /\ last.seen[2] \notin NsoVersions
  /\ last.value = <<NSOAPP_VER_FALLBACK>>

\* C8: with the cache unset, get_web_view_ver exits only when the home page
\* fetch fails to connect; every other failure returns WEB_VIEW_VER_FALLBACK.
C8_OnlyHomeConnfailIsFatal ==
  (last.fn = "get_web_view_ver" /\ last.seen # <<>>) =>
    /\ last.out = "exit" <=> last.seen[1] = "connfail"
    /\ last.out \in {"return", "exit"}
    /\ (last.seen[1] # "connfail" /\ last.seen # <<"ok", "match">>)
         => (last.out = "return" /\ last.value = <<WEB_VIEW_VER_FALLBACK>>)

\* C9: call_f_api returns exactly when the API answered with JSON holding f,
\* request_id and timestamp, and returns those three values; any other answer
\* exits with code 1, and no request is sent after a failed attestation call.
C9_AttestationFailureIsFatal ==
  /\ \A i \in DOMAIN attests :
       /\ attests[i].out = "return" <=> attests[i].api = "ok"
       /\ attests[i].out = "return" =>
            attests[i].ret = [f |-> AttestResp(i).f, uuid |-> AttestResp(i).request_id,
                              timestamp |-> AttestResp(i).timestamp]
       /\ attests[i].api # "ok" =>
            /\ i = Len(attests)
            /\ GtokenExited /\ last.code = 1
            /\ Len(requests) = attests[i].after
  /\ f_uuid_timestamp # NoTriple =>
       \E i \in DOMAIN attests :
         /\ attests[i].out = "return" /\ f_uuid_timestamp = attests[i].ret
         /\ \A j \in (i + 1)..Len(attests) : attests[j].out # "return"

\* the step-2 attestation after a coral-login retry failed and the run ended
\* there
C9_Witness ==
  /\ Len(attests) = 3 /\ attests[3].step = 2 /\ attests[3].api = "nofield"
  /\ Len(WsReqs) = 0 /\ GtokenExited

\* C10: get_bullet's outcome by response: status 401, 403 or 204 exits with
\* code 1; otherwise a JSON object with bulletToken returns the token, a body
\* that is not JSON returns the empty string, and a JSON object without
\* bulletToken exits with code 1.
C10_BulletOutcome ==
  (last.fn = "get_bullet" /\ bullet_r.kind = "response") =>
    /\ bullet_r.status \in {401, 403, 204} => last = Exited("get_bullet")
    /\ (bullet_r.status = 200 /\ bullet_r.body = "object")
         => last = Returned("get_bullet", <<bullet_r.bulletToken>>)
    /\ (bullet_r.status = 200 /\ bullet_r.body = "nonjson")
         => last = Returned("get_bullet", <<"">>)
    /\ (bullet_r.status = 200 /\ bullet_r.body = "nofield")
         => last = Exited("get_bullet")

\* a 200 answer with a JSON object that has no bulletToken ended the process
C10_Witness ==
  /\ last = Exited("get_bullet")
  /\ bullet_r.kind = "response" /\ bullet_r.status = 200 /\ bullet_r.body = "nofield"

\* every request and every attestation call of the run so far was answered
\* at the first attempt with all the fields the code reads
WellAnswered ==
  /\ Len(requests) >= 1
  /\ \A i \in DOMAIN requests : requests[i].answer = "ok"
  /\ \A i \in DOMAIN attests : attests[i].api = "ok" /\ attests[i].out = "return"
  /\ id_response.id_token # Absent
  /\ user_info.birthday # Absent
RequestUrls == [i \in DOMAIN requests |-> requests[i].url]

\* C12: when every remote call is answered well at its first attempt,
\* get_gtoken neither exits nor retries, sends exactly one api/token, one
\* users/me, one Account/Login and one Game/GetWebServiceToken request and
\* returns (accessToken of the last answer, nickname, language, country of
\* the users/me answer); get_bullet called with that token and answered 200
\* with an object returns the non-empty bulletToken of the answer.
C12_SinglePass ==
  /\ (last.fn = "get_gtoken" /\ WellAnswered) =>
       /\ pc \in {"gg_users_me", "gg_f1", "gg_login", "gg_ws", "idle"}
       /\ Len(LoginReqs) <= 1 /\ Len(WsReqs) <= 1
       /\ pc = "idle" =>
            /\ RequestUrls = <<"api/token", "users/me", "Account/Login",
                               "Game/GetWebServiceToken">>
            /\ last = Returned("get_gtoken",
                                <<requests[4].got, user_info.nickname,
                                  user_info.language, user_info.country>>)
            /\ requests[4].got \in WebServiceTokens
  /\ (last.fn = "get_bullet" /\ bullet_r.chained /\ bullet_r.kind = "response"
        /\ bullet_r.status = 200 /\ bullet_r.body = "object") =>
       /\ last = Returned("get_bullet", <<bullet_r.bulletToken>>)
       /\ bullet_r.bulletToken \in BulletTokens /\ bullet_r.bulletToken # ""

\* a single-pass get_gtoken run followed by a get_bullet call that returned
\* the token of its answer
C12_Witness ==
  /\ last.fn = "get_bullet" /\ last.out = "return" /\ bullet_r.chained
  /\ bullet_r.status = 200 /\ last.value = <<bullet_r.bulletToken>>

\* C15: every step-1 attestation call of a run is made with the id_token of
\* the api/token answer, and the retry's call is never reached with its
\* token argument unbound.
C15_Step1UsesIdToken ==
  /\ \A i \in DOMAIN attests :
       attests[i].step = 1 => attests[i].token = id_response.id_token
  /\ pc = "gg_login_retry_f" => access_token # Unbound

\* C16: requests go forward only: users/me follows an api/token answer with
\* access_token and carries it; the first Account/Login follows a complete
\* users/me answer and a step-1 attestation that returned; every
\* Game/GetWebServiceToken follows an Account/Login answer holding both the
\* coral access token and the coral user id and carries the access token of
\* the most recent such answer; get_gtoken returns only the accessToken of a
\* Game/GetWebServiceToken answer of the run.
C16_ForwardOrder ==
  /\ \A i \in DOMAIN requests :
       /\ requests[i].url = "users/me" =>
            \E j \in 1..(i - 1) :
              /\ requests[j].url = "api/token" /\ requests[j].answer = "ok"
              /\ requests[i].token = requests[j].got
       /\ (requests[i].url = "Account/Login" /\ i = FirstReq("Account/Login")) =>
            /\ \E j \in 1..(i - 1) :
                 requests[j].url = "users/me" /\ requests[j].answer = "ok"
            /\ \E k \in DOMAIN attests :
                 attests[k].step = 1 /\ attests[k].out = "return" /\ attests[k].after < i
       /\ requests[i].url = "Game/GetWebServiceToken" =>
            \E j \in 1..(i - 1) :
              /\ requests[j].url = "Account/Login" /\ requests[j].answer = "ok"
              /\ \A m \in (j + 1)..(i - 1) :
                   ~(requests[m].url = "Account/Login" /\ requests[m].answer = "ok")
              /\ requests[i].token = requests[j].got
  /\ (last.fn = "get_gtoken" /\ last.out = "return") =>
       \E i \in DOMAIN requests :
         /\ requests[i].url = "Game/GetWebServiceToken" /\ requests[i].answer = "ok"
         /\ last.value[1] = requests[i].got /\ requests[i].got # Absent

\* a run that returned the token of its second Game/GetWebServiceToken
\* answer, sent after the second Account/Login answer was the complete one
C16_Witness ==
  /\ last.fn = "get_gtoken" /\ last.out = "return"
  /\ Len(LoginReqs) = 2 /\ LoginReqs[1].answer = "rejected"
  /\ Len(WsReqs) = 2 /\ WsReqs[2].token = LoginReqs[2].got
  /\ last.value[1] = WsReqs[2].got

\* C17: a failed call_f_api reports the body of the answer whenever the
\* answer has a non-empty body, JSON or not, the HTTP status when the body is
\* empty, and the could-not-connect message only when no answer came.
C17_MessagePriority ==
  \A i \in DOMAIN attests :
    attests[i].out = "exit" =>
      /\ attests[i].api \in {"nonjson", "nofield"} => attests[i].msg = "body"
      /\ attests[i].api = "empty" => attests[i].msg = "status"
      /\ attests[i].msg = "connect" => attests[i].api = "connfail"

\* C19: each cache is written at most once: a cache that holds a resolved
\* value keeps it in every step, every nested call made from then on returns
\* it, and a direct call returns it having sent no request.
C19_WriteOnce ==
  [][ /\ NSOAPP_VERSION # UNKNOWN =>
           /\ NSOAPP_VERSION' = NSOAPP_VERSION
           /\ nsoLast = NSOAPP_VERSION /\ nsoLast' = NSOAPP_VERSION
           /\ (calls' # calls /\ last'.fn = "get_nsoapp_version")
                => last' = Returned("get_nsoapp_version", <<NSOAPP_VERSION>>)
      /\ WEB_VIEW_VERSION # UNKNOWN =>
           /\ WEB_VIEW_VERSION' = WEB_VIEW_VERSION
           /\ wvLast = WEB_VIEW_VERSION /\ wvLast' = WEB_VIEW_VERSION
           /\ (calls' # calls /\ last'.fn = "get_web_view_ver")
                => last' = Returned("get_web_view_ver", <<WEB_VIEW_VERSION>>)
    ]_vars

\* with both caches resolved, a call of get_web_view_ver returned the cached
\* value having sent no request
C19_Witness ==
  /\ NSOAPP_VERSION # UNKNOWN /\ WEB_VIEW_VERSION # UNKNOWN
  /\ calls >= 2 /\ wvFirst = WEB_VIEW_VERSION
  /\ last = Returned("get_web_view_ver", <<WEB_VIEW_VERSION>>)

\* C11: the challenge of the authorize URL is base64url(SHA256(verifier
\* without '=')) without '=', the verifier that api/session_token receives is
\* that verifier without '=', and neither changes while the operator is
\* prompted again.
C11_ChallengePairsVerifier ==
  [][ /\ pc' = "li_prompt" =>
           /\ auth_code_challenge' =
                strip_padding(urlsafe_b64encode(sha256(strip_padding(auth_code_verifier'))))
           /\ \A i \in DOMAIN auth_code_challenge' : auth_code_challenge'[i] # Pad
      /\ pc = "li_prompt" =>
           /\ auth_code_verifier' = auth_code_verifier
           /\ auth_code_challenge' = auth_code_challenge
           /\ \A i \in DOMAIN session_reqs' :
                session_reqs'[i].session_token_code_verifier
                  = strip_padding(auth_code_verifier)
    ]_vars

\* after a malformed input, a matching one sent the padded verifier's
\* stripped form to api/session_token and the session token came back
C11_Witness ==
  /\ last = Returned("log_in", <<SessionToken>>)
  /\ prompts = 2 /\ Len(session_reqs) = 1
  /\ \E i \in DOMAIN auth_code_verifier : auth_code_verifier[i] = Pad
  /\ session_reqs[1].session_token_code_verifier = strip_padding(auth_code_verifier)
  /\ session_reqs[1].session_token_code_verifier # auth_code_verifier

\* the input holds "de=", then a code, then "&st"
HasCode(u) ==
  \E i, j \in DOMAIN u : i < j /\ u[i] = "de=" /\ u[j] = "&st"
\* code is what stands between a "de=" and an "&st" of the input
CodeOf(u, code) ==
  \E i, j \in DOMAIN u : i < j /\ u[i] = "de=" /\ u[j] = "&st" /\ code = SubSeq(u, i + 1, j - 1)

\* C18: at the prompt of log_in, "skip" returns "skip" and no request is
\* sent; an input without de=<code>&st prompts again and no request is sent;
\* Ctrl+C exits with code 1; api/session_token is requested at most once per
\* call, only after an input with a code, and with a code taken from it.
C18_PromptLoop ==
  [][ pc = "li_prompt" =>
        /\ (prompts' # prompts /\ use_account_url' = SkipInput) =>
             /\ last' = Returned("log_in", <<"skip">>) /\ pc' = "idle"
             /\ session_reqs' = <<>> /\ NSOAPP_VERSION' = NSOAPP_VERSION
        /\ (prompts' # prompts /\ use_account_url' # SkipInput
              /\ ~HasCode(use_account_url')) =>
             /\ pc' = "li_prompt" /\ last' = last
             /\ session_reqs' = <<>> /\ NSOAPP_VERSION' = NSOAPP_VERSION
        /\ (prompts' = prompts /\ pc' # pc) =>
             /\ pc' = "exit" /\ last' = Exited("log_in") /\ last'.code = 1
             /\ session_reqs' = session_reqs
        /\ Len(session_reqs') <= 1
        /\ Len(session_reqs') = 1 =>
             /\ prompts' # prompts /\ HasCode(use_account_url')
             /\ CodeOf(use_account_url', session_reqs'[1].session_token_code)
    ]_vars

\* a malformed input was followed by a matching one, whose code went out in
\* the one api/session_token request of the call
C18_Witness ==
  /\ last.fn = "log_in" /\ last.out = "return" /\ prompts = 2
  /\ Len(session_reqs) = 1 /\ session_reqs[1].session_token_code = <<"x", "&st", "y">>
  /\ use_account_url = <<"de=", "x", "&st", "y", "&st">>

\* C13: every failed remote call of get_session_token, get_gtoken and
\* get_bullet (no connection, a body that is not JSON, a body without an
\* expected field) ends in exit code 1: no exception escapes and no failure
\* is passed over.
C13_FailuresExit ==
  /\ last.fn \in {"log_in", "get_gtoken", "get_bullet"} => last.out # "raise"
  /\ \A i \in DOMAIN requests :
       (\/ requests[i].answer \in {"connfail", "nonjson"}
        \/ (requests[i].url \in {"api/token", "users/me"} /\ requests[i].answer = "rejected"))
       => GtokenExited
  /\ \A i \in DOMAIN session_reqs :
       session_reqs[i].answer # "ok" => (pc = "exit" /\ last.fn = "log_in" /\ last.code = 1)
  /\ (last.fn = "get_bullet" /\ bullet_r.kind # "none"
        /\ (bullet_r.kind = "connfail" \/ bullet_r.body \in {"nonjson", "nofield"}))
       => (pc = "exit" /\ last.out = "exit" /\ last.code = 1)

\* C14: enter_tokens asks for the gtoken again unless it has 926 characters;
\* a bulletToken of 123 characters not ending in '=' gets '=' appended and is
\* accepted, one of 124 characters is accepted, every other one is asked for
\* again; a returned pair has lengths 926 and 124.
C14_EnterTokens ==
  [][ /\ (pc = "et_gtoken" /\ prompts' # prompts) =>
           /\ new_gtoken'.len = 926 => pc' = "et_bullet"
           /\ new_gtoken'.len # 926 => (pc' = "et_gtoken" /\ last' = last)
      /\ (pc = "et_bullet" /\ prompts' # prompts) =>
           /\ (typed'.len = 123 /\ typed'.lastc # "=") =>
                /\ new_bullettoken' = [len |-> 124, lastc |-> "="]
                /\ pc' = "idle" /\ last'.out = "return"
           /\ typed'.len = 124 =>
                /\ new_bullettoken' = typed'
                /\ pc' = "idle" /\ last'.out = "return"
           /\ (typed'.len # 124 /\ ~(typed'.len = 123 /\ typed'.lastc # "=")) =>
                (pc' = "et_bullet" /\ last' = last)
      /\ (last'.fn = "enter_tokens" /\ last'.out = "return") =>
           /\ new_gtoken'.len = 926 /\ new_bullettoken'.len = 124
           /\ last'.value = <<Show(new_gtoken'), Show(new_bullettoken')>>
    ]_vars

\* a typed bulletToken of 123 characters was completed with '=' and returned
\* together with a gtoken of 926 characters
C14_Witness ==
  /\ last.fn = "enter_tokens" /\ last.out = "return"
  /\ typed = [len |-> 123, lastc |-> "x"]
  /\ new_bullettoken = [len |-> 124, lastc |-> "="]
  /\ last.value = <<"926x", "124=">>

\* C20: the caches are unguarded: a caller that found the cache unset and
\* resolved a version assigns it whatever the cache holds by then, so a later
\* write replaces an earlier one, and each caller returns what the cache
\* holds when it returns.
C20_UnguardedCache ==
  [][ \A t \in Threads :
        /\ (th[t].pc = "write" /\ th'[t].pc # "write") =>
             /\ CacheOf(th[t].fn)' = th[t].ver
             /\ writes' = Append(writes, [by |-> t, fn |-> th[t].fn, value |-> th[t].ver])
        /\ (th[t].pc = "return" /\ th'[t].pc # "return") =>
             th'[t].ret = CacheOf(th[t].fn)
    ]_vars

\* both callers of get_nsoapp_version passed the test, resolved different
\* versions and wrote them; the second write replaced the first and the two
\* callers returned different versions
C20_Witness ==
  /\ \A t \in Threads : th[t].pc = "done" /\ th[t].fn = "get_nsoapp_version"
  /\ Len(writes) = 2 /\ writes[1].by # writes[2].by
  /\ writes[1].value # writes[2].value
  /\ NSOAPP_VERSION = writes[2].value
  /\ th[1].ret # th[2].ret
  /\ {th[1].ret, th[2].ret} = {writes[1].value, writes[2].value}
====
